---- MODULE Spec2Model ----
(***************************************************************************)
(* Model of `capibmadm vpc key create`                                     *)
(* (cmd/capibmadm/cmd/vpc/key/create.go).                                  *)
(*                                                                         *)
(* One behaviour is one invocation of the command.  cobra runs PreRunE,    *)
(* then the required-flag check, then RunE; RunE reads the key file,       *)
(* parses the key and calls createKey, which talks to the collaborators.   *)
(* Strings whose content matters (key material, file content) are          *)
(* sequences of one-character strings.  "K" stands for a well formed       *)
(* "<algorithm> <base64 blob>" prefix, "x" for any other byte.             *)
(***************************************************************************)
EXTENDS Integers, Sequences, FiniteSets, TLC

\* ---------------------------------------------------------------- bounds
MaxLen == 3

LF == "\n"
CR == "\r"
Alphabet == {"K", "x", LF, CR}

RECURSIVE StringsUpTo(_)
StringsUpTo(n) ==
    IF n = 0 THEN {<<>>}
    ELSE LET shorter == StringsUpTo(n - 1)
         IN  shorter \cup {Append(s, c) : s \in {t \in shorter : Len(t) = n - 1}, c \in Alphabet}

Strings == StringsUpTo(MaxLen)

Names == {"", "foo"}
FilePaths == {"", "/key.pub"}
ResourceGroupNames == {"", "rg"}
CollabErrors == {"e1", "e2"}
AccountIDs == {"acct1", "acct2"}
ResourceGroupIDs == {"rgid1", "rgid2"}
KeyNames == {"foo", "bar"}
Region == "us-south"

Nil == <<>>
Unset == "<unset>"

VARIABLES
    nameSet,                  \* --name was given on the command line
    name,                     \* keyCreateOption.name
    publicKey,                \* keyCreateOption.publicKey
    publicKeyFlag,            \* --public-key as given on the command line
    resourceGroupName,        \* keyCreateOption.resourceGroupName
    filePath,                 \* --key-path
    GlobalResourceGroupName,  \* --resource-group-name (common flag)
    pc,                       \* position of the invocation
    fileState,                \* publicKeyFile: "unopened", "open", "closed"
    fileContent,              \* bytes of the file as opened
    data,                     \* bytes the scanner has not consumed yet
    deferred,                 \* RunE has a pending `defer publicKeyFile.Close()`
    accountID,
    request,                  \* vpcv1.CreateKeyOptions
    trace,                    \* every step taken, with its result
    err,                      \* error the invocation ended with (Nil: none)
    logged                    \* success log lines

vars == <<nameSet, name, publicKey, publicKeyFlag, resourceGroupName, filePath,
          GlobalResourceGroupName, pc, fileState, fileContent, data, deferred,
          accountID, request, trace, err, logged>>

\* ------------------------------------------------------------- helpers
Step(fn, ok, e, args, key, ret) ==
    [fn |-> fn, ok |-> ok, err |-> e, args |-> args, key |-> key, ret |-> ret]

IndexByte(s, c) ==
    IF \E i \in 1..Len(s) : s[i] = c
    THEN CHOOSE i \in 1..Len(s) : s[i] = c /\ \A j \in 1..(i - 1) : s[j] # c
    ELSE 0

\* bufio.dropCR
dropCR(s) ==
    IF Len(s) > 0 /\ s[Len(s)] = CR THEN SubSeq(s, 1, Len(s) - 1) ELSE s

\* bufio.ScanLines on the rest of the file (the scanner is at EOF of a
\* small file): has = a token is returned, advance = bytes consumed.
ScanLines(d) ==
    IF Len(d) = 0 THEN [has |-> FALSE, advance |-> 0, token |-> <<>>]
    ELSE LET i == IndexByte(d, LF)
         IN  IF i > 0
             THEN [has |-> TRUE, advance |-> i, token |-> dropCR(SubSeq(d, 1, i - 1))]
             ELSE [has |-> TRUE, advance |-> Len(d), token |-> dropCR(d)]

\* ssh.ParseAuthorizedKey: walk the input line by line, cut each line at
\* the first CR, skip lines that hold no key, accept the first that does.
RECURSIVE ParseAuthorizedKey(_)
ParseAuthorizedKey(in) ==
    IF Len(in) = 0 THEN FALSE
    ELSE LET end  == IndexByte(in, LF)
             line == IF end > 0 THEN SubSeq(in, 1, end - 1) ELSE in
             rest == IF end > 0 THEN SubSeq(in, end + 1, Len(in)) ELSE <<>>
             cr   == IndexByte(line, CR)
             cut  == IF cr > 0 THEN SubSeq(line, 1, cr - 1) ELSE line
         IN  IF Len(cut) > 0 /\ cut[1] = "K" THEN TRUE
             ELSE ParseAuthorizedKey(rest)

\* PreRunE's condition
PreRunEFailsMut(pk, fp) == (pk = <<>>) /\ (fp = "")
PreRunEFails(pk, fp) == (pk = <<>>) = (fp = "")

\* what `defer publicKeyFile.Close()` leaves behind when RunE returns
AfterReturnMut(fs, d, e) == IF d /\ e = Nil THEN "closed" ELSE fs
AfterReturn(fs, d, e) == IF d THEN "closed" ELSE fs

\* options.SetName / options.SetPublicKey on a fresh CreateKeyOptions
NewCreateKeyOptionsMut(n, pk) == [name |-> Unset, publicKey |-> pk, resourceGroup |-> Unset]
NewCreateKeyOptions(n, pk) == [name |-> n, publicKey |-> pk, resourceGroup |-> Unset]

\* RunE returns e: deferred calls run, the invocation is over
Return(e) ==
    /\ err' = e
    /\ fileState' = AfterReturn(fileState, deferred, e)
    /\ deferred' = FALSE
    /\ pc' = "done"

\* ------------------------------------------------------------------ Init
Init ==
    /\ nameSet \in BOOLEAN
    /\ name \in Names
    /\ (~nameSet => name = "")
    /\ publicKey \in Strings
    /\ publicKeyFlag = publicKey
    /\ resourceGroupName = ""
    /\ filePath \in FilePaths
    /\ GlobalResourceGroupName \in ResourceGroupNames
    /\ pc = "PreRunE"
    /\ fileState = "unopened"
    /\ fileContent = <<>>
    /\ data = <<>>
    /\ deferred = FALSE
    /\ accountID = Unset
    /\ request = [name |-> Unset, publicKey |-> <<>>, resourceGroup |-> Unset]
    /\ trace = <<>>
    /\ err = Nil
    /\ logged = <<>>

\* --------------------------------------------------------------- actions
PreRunE ==
    /\ pc = "PreRunE"
    /\ IF PreRunEFails(publicKey, filePath)
       THEN /\ err' = <<"the required flags either key-path of vpc key or the public-key within double quotation marks is not found">>
            /\ trace' = Append(trace, Step("PreRunE", FALSE, err', <<>>, <<>>, ""))
            /\ pc' = "done"
       ELSE /\ trace' = Append(trace, Step("PreRunE", TRUE, Nil, <<>>, <<>>, ""))
            /\ pc' = "ValidateRequiredFlags"
            /\ err' = err
    /\ UNCHANGED <<nameSet, name, publicKey, publicKeyFlag, resourceGroupName, filePath,
                   GlobalResourceGroupName, fileState, fileContent, data,
                   deferred, accountID, request, logged>>

ValidateRequiredFlagsMut ==
    /\ pc = "ValidateRequiredFlags"
    /\ trace' = Append(trace, Step("ValidateRequiredFlags", TRUE, Nil, <<>>, <<>>, ""))
    /\ pc' = "RunE"
    /\ UNCHANGED <<nameSet, name, publicKey, publicKeyFlag, resourceGroupName, filePath,
                   GlobalResourceGroupName, fileState, fileContent, data,
                   deferred, accountID, request, logged, err>>

\* cmd.MarkFlagRequired("name"): cobra refuses to run when the flag was not
\* given; it does not look at the flag's value.
ValidateRequiredFlags ==
    /\ pc = "ValidateRequiredFlags"
    /\ IF ~nameSet
       THEN /\ err' = <<"required flag(s) \"name\" not set">>
            /\ trace' = Append(trace, Step("ValidateRequiredFlags", FALSE, err', <<>>, <<>>, ""))
            /\ pc' = "done"
       ELSE /\ trace' = Append(trace, Step("ValidateRequiredFlags", TRUE, Nil, <<>>, <<>>, ""))
            /\ pc' = "RunE"
            /\ err' = err
    /\ UNCHANGED <<nameSet, name, publicKey, publicKeyFlag, resourceGroupName, filePath,
                   GlobalResourceGroupName, fileState, fileContent, data,
                   deferred, accountID, request, logged>>

\* RunE, lines 73-80: open the key file when --key-path is given
Open ==
    /\ pc = "RunE"
    /\ IF filePath # ""
       THEN \E ok \in BOOLEAN, content \in Strings, e \in CollabErrors :
              IF ok
              THEN /\ fileState' = "open"
                   /\ fileContent' = content
                   /\ data' = content
                   /\ deferred' = TRUE
                   /\ trace' = Append(trace, Step("os.Open", TRUE, Nil, <<filePath>>, <<>>, ""))
                   /\ pc' = "Scan"
                   /\ err' = err
              ELSE /\ content = <<>>
                   /\ trace' = Append(trace, Step("os.Open", FALSE, <<"unable to open file. ", e>>, <<filePath>>, <<>>, ""))
                   /\ Return(<<"unable to open file. ", e>>)
                   /\ UNCHANGED <<fileContent, data>>
       ELSE /\ pc' = "ParseAuthorizedKey"
            /\ UNCHANGED <<fileState, fileContent, data, deferred, trace, err>>
    /\ UNCHANGED <<nameSet, name, publicKey, publicKeyFlag, resourceGroupName, filePath,
                   GlobalResourceGroupName, accountID, request, logged>>

ScanMut ==
    /\ pc = "Scan"
    /\ LET r == ScanLines(data)
       IN  IF r.has
           THEN /\ publicKey' = IF data = fileContent THEN r.token ELSE publicKey
                /\ data' = SubSeq(data, r.advance + 1, Len(data))
                /\ pc' = pc
           ELSE /\ pc' = "ParseAuthorizedKey"
                /\ UNCHANGED <<publicKey, data>>
    /\ UNCHANGED <<nameSet, name, publicKeyFlag, resourceGroupName, filePath,
                   GlobalResourceGroupName, fileState, fileContent, deferred,
                   accountID, request, trace, err, logged>>

\* RunE, lines 81-83: one iteration of the scan loop
Scan ==
    /\ pc = "Scan"
    /\ LET r == ScanLines(data)
       IN  IF r.has
           THEN /\ publicKey' = r.token
                /\ data' = SubSeq(data, r.advance + 1, Len(data))
                /\ pc' = pc
           ELSE /\ pc' = "ParseAuthorizedKey"
                /\ UNCHANGED <<publicKey, data>>
    /\ UNCHANGED <<nameSet, name, publicKeyFlag, resourceGroupName, filePath,
                   GlobalResourceGroupName, fileState, fileContent, deferred,
                   accountID, request, trace, err, logged>>

ParseKeyMut ==
    /\ pc = "ParseAuthorizedKey"
    /\ trace' = Append(trace, Step("ParseAuthorizedKey", ParseAuthorizedKey(publicKey),
                                   IF ParseAuthorizedKey(publicKey) THEN Nil
                                   ELSE <<"the provided VPC key is invalid. ", "ssh: no key found">>,
                                   <<>>, publicKey, ""))
    /\ pc' = "NewV1Client"
    /\ UNCHANGED <<nameSet, name, publicKey, publicKeyFlag, resourceGroupName, filePath,
                   GlobalResourceGroupName, fileState, fileContent, data,
                   deferred, accountID, request, logged, err>>

\* RunE, lines 86-88
ParseKey ==
    /\ pc = "ParseAuthorizedKey"
    /\ IF ParseAuthorizedKey(publicKey)
       THEN /\ trace' = Append(trace, Step("ParseAuthorizedKey", TRUE, Nil, <<>>, publicKey, ""))
            /\ pc' = "NewV1Client"
            /\ UNCHANGED <<err, fileState, deferred>>
       ELSE /\ trace' = Append(trace, Step("ParseAuthorizedKey", FALSE,
                                          <<"the provided VPC key is invalid. ", "ssh: no key found">>,
                                          <<>>, publicKey, ""))
            /\ Return(<<"the provided VPC key is invalid. ", "ssh: no key found">>)
    /\ UNCHANGED <<nameSet, name, publicKey, publicKeyFlag, resourceGroupName, filePath,
                   GlobalResourceGroupName, fileContent, data,
                   accountID, request, logged>>

\* createKey, lines 100-103
NewV1Client ==
    /\ pc = "NewV1Client"
    /\ \E ok \in BOOLEAN, e \in CollabErrors :
         IF ok
         THEN /\ e = "e1"
              /\ trace' = Append(trace, Step("NewV1Client", TRUE, Nil, <<Region>>, <<>>, ""))
              /\ pc' = "GetAccountID"
              /\ UNCHANGED <<err, fileState, deferred>>
         ELSE /\ trace' = Append(trace, Step("NewV1Client", FALSE, <<e>>, <<Region>>, <<>>, ""))
              /\ Return(<<e>>)
    /\ UNCHANGED <<nameSet, name, publicKey, publicKeyFlag, resourceGroupName, filePath,
                   GlobalResourceGroupName, fileContent, data,
                   accountID, request, logged>>

GetAccountIDMut ==
    /\ pc = "GetAccountID"
    /\ \E ok \in BOOLEAN, e \in CollabErrors, id \in AccountIDs :
         IF ok
         THEN /\ e = "e1"
              /\ trace' = Append(trace, Step("GetAccountID", TRUE, Nil, <<>>, <<>>, id))
              /\ accountID' = id
         ELSE /\ id = "acct1"
              /\ trace' = Append(trace, Step("GetAccountID", FALSE, <<e>>, <<>>, <<>>, ""))
              /\ accountID' = ""
    /\ pc' = "BuildOptions"
    /\ UNCHANGED <<nameSet, name, publicKey, publicKeyFlag, resourceGroupName, filePath,
                   GlobalResourceGroupName, fileContent, data,
                   request, logged, err, fileState, deferred>>

\* createKey, lines 105-108
GetAccountID ==
    /\ pc = "GetAccountID"
    /\ \E ok \in BOOLEAN, e \in CollabErrors, id \in AccountIDs :
         IF ok
         THEN /\ e = "e1"
              /\ trace' = Append(trace, Step("GetAccountID", TRUE, Nil, <<>>, <<>>, id))
              /\ accountID' = id
              /\ pc' = "BuildOptions"
              /\ UNCHANGED <<err, fileState, deferred>>
         ELSE /\ id = "acct1"
              /\ trace' = Append(trace, Step("GetAccountID", FALSE, <<e>>, <<>>, <<>>, ""))
              /\ accountID' = ""
              /\ Return(<<e>>)
    /\ UNCHANGED <<nameSet, name, publicKey, publicKeyFlag, resourceGroupName, filePath,
                   GlobalResourceGroupName, fileContent, data,
                   request, logged>>

\* createKey, lines 110-124: build the request; look the resource group up
\* when keyCreateOption.resourceGroupName is not empty
BuildOptions ==
    /\ pc = "BuildOptions"
    /\ LET opts == NewCreateKeyOptions(name, publicKey)
       IN  IF resourceGroupName # ""
           THEN \E ok \in BOOLEAN, e \in CollabErrors, id \in ResourceGroupIDs :
                  IF ok
                  THEN /\ e = "e1"
                       /\ trace' = Append(trace, Step("GetResourceGroupID", TRUE, Nil,
                                                      <<resourceGroupName, accountID>>, <<>>, id))
                       /\ request' = [opts EXCEPT !.resourceGroup = id]
                       /\ pc' = "CreateKey"
                       /\ UNCHANGED <<err, fileState, deferred>>
                  ELSE /\ id = "rgid1"
                       /\ trace' = Append(trace, Step("GetResourceGroupID", FALSE, <<e>>,
                                                      <<resourceGroupName, accountID>>, <<>>, ""))
                       /\ request' = opts
                       /\ Return(<<e>>)
           ELSE /\ request' = opts
                /\ pc' = "CreateKey"
                /\ UNCHANGED <<trace, err, fileState, deferred>>
    /\ UNCHANGED <<nameSet, name, publicKey, publicKeyFlag, resourceGroupName, filePath,
                   GlobalResourceGroupName, fileContent, data,
                   accountID, logged>>

CreateKeyMut ==
    /\ pc = "CreateKey"
    /\ \E ok \in BOOLEAN, e \in CollabErrors, keyName \in KeyNames :
         /\ IF ok THEN e = "e1" ELSE keyName = "foo"
         /\ trace' = Append(trace, Step("CreateKey", ok, IF ok THEN Nil ELSE <<e>>, <<>>, <<>>,
                                        IF ok THEN keyName ELSE ""))
         /\ logged' = Append(logged, keyName)
         /\ Return(IF ok THEN Nil ELSE <<e>>)
    /\ UNCHANGED <<nameSet, name, publicKey, publicKeyFlag, resourceGroupName, filePath,
                   GlobalResourceGroupName, fileContent, data,
                   accountID, request>>

\* createKey, lines 126-130, and RunE's return
CreateKey ==
    /\ pc = "CreateKey"
    /\ \E ok \in BOOLEAN, e \in CollabErrors, keyName \in KeyNames :
         IF ok
         THEN /\ e = "e1"
              /\ trace' = Append(trace, Step("CreateKey", TRUE, Nil, <<>>, <<>>, keyName))
              /\ logged' = Append(logged, keyName)
              /\ Return(Nil)
         ELSE /\ keyName = "foo"
              /\ trace' = Append(trace, Step("CreateKey", FALSE, <<e>>, <<>>, <<>>, ""))
              /\ logged' = logged
              /\ Return(<<e>>)
    /\ UNCHANGED <<nameSet, name, publicKey, publicKeyFlag, resourceGroupName, filePath,
                   GlobalResourceGroupName, fileContent, data,
                   accountID, request>>

Next ==
    \/ PreRunE
    \/ ValidateRequiredFlags
    \/ Open
    \/ Scan
    \/ ParseKey
    \/ NewV1Client
    \/ GetAccountID
    \/ BuildOptions
    \/ CreateKey

Spec == Init /\ [][Next]_vars

\* the process runs the command to its end
FairSpec == Spec /\ WF_vars(Next)

\* ------------------------------------------------------ claim vocabulary
Collaborators == {"NewV1Client", "GetAccountID", "GetResourceGroupID", "CreateKey"}

Idx(fn) == {i \in DOMAIN trace : trace[i].fn = fn}
Called(fn) == Idx(fn) # {}
Succeeded(fn) == \E i \in Idx(fn) : trace[i].ok
Failed(fn) == \E i \in Idx(fn) : ~trace[i].ok
RemoteCalled == \E i \in DOMAIN trace : trace[i].fn \in Collaborators
IsCollaborator(r) == r.fn \in Collaborators
CollabCalls == SelectSeq(trace, IsCollaborator)

ConfigError == <<"the required flags either key-path of vpc key or the public-key within double quotation marks is not found">>
RequiredFlagError == <<"required flag(s) \"name\" not set">>
FormatErrorPrefix == "the provided VPC key is invalid. "

Rank(fn) ==
    CASE fn = "NewV1Client" -> 1
      [] fn = "GetAccountID" -> 2
      [] fn = "GetResourceGroupID" -> 3
      [] fn = "CreateKey" -> 4

\* the lines of a text file: split at LF, one trailing CR dropped per line,
\* a final LF does not start another line
RECURSIVE FileLines(_)
FileLines(s) ==
    IF Len(s) = 0 THEN <<>>
    ELSE LET i == IndexByte(s, LF)
         IN  IF i > 0
             THEN <<dropCR(SubSeq(s, 1, i - 1))>> \o FileLines(SubSeq(s, i + 1, Len(s)))
             ELSE <<dropCR(s)>>

LastLine(ls) == IF Len(ls) = 0 THEN <<>> ELSE ls[Len(ls)]
NonEmptyLines(ls) == LET NonEmpty(l) == Len(l) > 0 IN SelectSeq(ls, NonEmpty)

ScanFinished == Succeeded("os.Open") /\ pc \notin {"RunE", "Scan"}

\* the key string must equal k wherever it has been handed on
KeyHandedOnIs(k) ==
    /\ publicKey = k
    /\ \A i \in Idx("ParseAuthorizedKey") : trace[i].key = k
    /\ (pc = "CreateKey" \/ Called("CreateKey")) => request.publicKey = k

\* ---------------------------------------------------------------- claims

\* C1: create-key is called at most once and only after flag validation,
\* file open, key parsing, client construction, account-ID resolution and,
\* when a --resource-group-name is given, the resource-group lookup have
\* succeeded; an invocation in which a step failed ends with that step's
\* error and without a create-key call.
C1_CreateOnlyAfterAllGates ==
    /\ Cardinality(Idx("CreateKey")) <= 1
    /\ Called("CreateKey") =>
         /\ Succeeded("PreRunE")
         /\ Succeeded("ValidateRequiredFlags")
         /\ (filePath # "" => Succeeded("os.Open"))
         /\ Succeeded("ParseAuthorizedKey")
         /\ Succeeded("NewV1Client")
         /\ Succeeded("GetAccountID")
         /\ (GlobalResourceGroupName # "" => Succeeded("GetResourceGroupID"))
    /\ \A i \in DOMAIN trace :
         (trace[i].fn # "CreateKey" /\ ~trace[i].ok) =>
            /\ ~Called("CreateKey")
            /\ pc = "done" /\ err = trace[i].err

\* C2: when --public-key and --key-path are both empty or both non-empty,
\* validation returns the configuration error and neither a file open nor a
\* collaborator call is made; when exactly one is non-empty validation passes.
C2_Validation ==
    LET bad == \/ (publicKeyFlag = <<>> /\ filePath = "")
               \/ (publicKeyFlag # <<>> /\ filePath # "")
    IN  /\ bad => /\ ~RemoteCalled
                  /\ ~Called("os.Open")
                  /\ fileState = "unopened"
                  /\ pc \in {"PreRunE", "done"}
                  /\ pc = "done" => err = ConfigError /\ Failed("PreRunE")
        /\ ~bad => (pc # "PreRunE" => Succeeded("PreRunE") /\ err # ConfigError)

C2_Witness ==
    /\ pc = "done" /\ err = ConfigError
    /\ publicKeyFlag # <<>> /\ filePath # ""

\* C3 (as stated): with a key file of several lines, the key string handed
\* to format validation and to the create-key request is the last non-empty
\* line of the file.
C3_LastNonEmptyLine ==
    LET ls == FileLines(fileContent)
        ne == NonEmptyLines(ls)
    IN  (ScanFinished /\ Len(ls) >= 2 /\ Len(ne) >= 1) => KeyHandedOnIs(LastLine(ne))

\* C3 (amended): with a key file, the key string handed to format
\* validation and to the create-key request is the last line of the file,
\* empty or not; it is the empty string when the file has no line.
C3_LastLine ==
    ScanFinished => KeyHandedOnIs(LastLine(FileLines(fileContent)))

C3_Witness ==
    /\ Called("CreateKey")
    /\ fileContent = <<"x", LF, "K">>
    /\ request.publicKey = <<"K">>

\* C4: with a non-empty --resource-group-name and every step succeeding,
\* the lookup is called exactly once with that name and the account ID, and
\* the request carries the ID the lookup returned.
C4_ResourceGroupAttached ==
    (pc = "done" /\ err = Nil /\ GlobalResourceGroupName # "") =>
        /\ Cardinality(Idx("GetResourceGroupID")) = 1
        /\ \A i \in Idx("GetResourceGroupID") :
             /\ trace[i].args = <<GlobalResourceGroupName, accountID>>
             /\ request.resourceGroup = trace[i].ret

\* C5: when the key string does not parse as an authorized key (the empty
\* string included), the invocation ends with the invalid-key error and no
\* collaborator is called.
C5_InvalidKeyNoRemoteCall ==
    \A i \in Idx("ParseAuthorizedKey") :
        /\ trace[i].key = <<>> => ~ParseAuthorizedKey(trace[i].key)
        /\ ~ParseAuthorizedKey(trace[i].key) =>
             /\ pc = "done"
             /\ Len(err) = 2 /\ err[1] = FormatErrorPrefix
             /\ ~RemoteCalled

C5_Witness ==
    /\ pc = "done"
    /\ Succeeded("os.Open") /\ fileContent = <<>>
    /\ Failed("ParseAuthorizedKey")
    /\ err # Nil

C7_NoResourceGroup ==
    GlobalResourceGroupName = "" =>
        /\ ~Called("GetResourceGroupID")
        /\ (pc = "CreateKey" \/ Called("CreateKey")) =>
             /\ request.name = name
             /\ request.publicKey = publicKey
             /\ \A i \in Idx("ParseAuthorizedKey") : request.publicKey = trace[i].key
             /\ ParseAuthorizedKey(request.publicKey)
             /\ request.resourceGroup = Unset

C7_Witness ==
    /\ Succeeded("CreateKey")
    /\ GlobalResourceGroupName = ""
    /\ name = "foo" /\ request.name = "foo"
    /\ request.resourceGroup = Unset

\* C8: a key file that was opened is closed when the handler has returned,
\* whatever the exit path; a file that was not opened is never closed or read.
C8_FileClosed ==
    /\ (pc = "done" /\ Succeeded("os.Open")) => fileState = "closed"
    /\ ~Succeeded("os.Open") => fileState = "unopened" /\ pc # "Scan" /\ ~deferred
    /\ pc = "Scan" => fileState = "open"
    /\ filePath = "" => ~Called("os.Open")

C8_Witness ==
    /\ pc = "done"
    /\ fileState = "closed"
    /\ Failed("ParseAuthorizedKey")

\* C9: every invocation ends, with a success log line or with an error and
\* never with both or neither; the line is logged exactly when create-key
\* returned without error, it carries the created key's name, and the
\* handler then returns no error.
C9_OneOutcome ==
    /\ [](pc = "done" =>
            /\ (Len(logged) = 1 /\ err = Nil) \/ (Len(logged) = 0 /\ err # Nil)
            /\ (Len(logged) = 1) <=> Succeeded("CreateKey")
            /\ \A i \in Idx("CreateKey") : trace[i].ok => logged = <<trace[i].ret>>)
    /\ [](pc # "done" => logged = <<>> /\ err = Nil)
    /\ <>(pc = "done")

C9_Witness ==
    /\ pc = "done"
    /\ logged = <<"foo">>
    /\ err = Nil

\* C10 (as stated): the name on a create request is never empty; an
\* invocation with an empty --name is rejected before any remote call.
C10_NameNonEmpty ==
    /\ (pc = "CreateKey" \/ Called("CreateKey")) => request.name # ""
    /\ name = "" => ~RemoteCalled

\* C10 (amended): --name must be given: without it the invocation is
\* rejected before any remote call; the name on a create request is the
\* --name value, which may be the empty string.
C10_NameFlagRequired ==
    /\ RemoteCalled => nameSet
    /\ (~nameSet /\ pc = "done") => err \in {ConfigError, RequiredFlagError}
    /\ (pc = "CreateKey" \/ Called("CreateKey")) => request.name = name

C10_Witness ==
    /\ Called("CreateKey")
    /\ nameSet /\ request.name = ""

====
